---- MODULE Spec2Model ----
(***************************************************************************)
(* Audio playback subsystem of NeuroViral ScriptGen                        *)
(* (src/components/ScriptSegmentCard.tsx).                                 *)
(*                                                                         *)
(* Every mounted ScriptSegmentCard is one "card".  The React state of a    *)
(* card (useState) and its refs (useRef) are per-card functions; the two   *)
(* module-level globals sharedAudioContext and activeStopCallback are      *)
(* plain variables.  Web Audio objects (buffer sources, ambience handles), *)
(* pending animation frames and in-flight generateSpeech promises are      *)
(* explicit, because their callbacks run later, with the closure of the    *)
(* render that created them.                                               *)
(*                                                                         *)
(* A function defined in the component body (stopAudio, toggleAudio,       *)
(* updateProgress) is a new object on every render.  render[c] names the   *)
(* current render of card c; a stop handle is the pair <<card, render>>,   *)
(* and `activeStopCallback === stopAudio` is equality of such pairs.       *)
(* Render 1 is the mount render.  A render whose closures nothing holds    *)
(* any more gives its name back, which keeps the names finite.             *)
(*                                                                         *)
(* One toggleAudio call starts at most one buffer source, so a source is   *)
(* named by the render of the toggleAudio that created it.  An ambience    *)
(* handle is reachable only through bgMusicControlRef; the handles a card  *)
(* started, never stopped and no longer refers to are remembered.          *)
(*                                                                         *)
(* One action is one browser task: the handler, the re-render it causes    *)
(* and the effects of that render.  toggleAudio's `await ctx.resume()` is  *)
(* not modelled: the context is created inside a click and is running.     *)
(*                                                                         *)
(* Spec is the playback model.  The two pure computations of the card have *)
(* specifications of their own: SpecSubtitle for the highlighted word      *)
(* (currentWordIndex) and SpecDecoder for the decoding of the speech       *)
(* payload (base64ToBytes, pcmToAudioBuffer).                              *)
(***************************************************************************)
EXTENDS Integers, FiniteSets, Sequences, TLC

\* ---------------------------------------------------------------- bounds
NumCards == 2
MaxSources == 2
MaxOps == 2
Duration == 2
MaxWords == 4
MaxSamples == 2

Cards == 1..NumCards
RenderIds == 1..(MaxSources + 4)

VARIABLES
  mounted,             \* card -> BOOLEAN: the component instance is mounted
  render,              \* card -> identity of the closures of the current render
  isPlaying,           \* useState(false)
  isLoadingAudio,      \* useState(false)
  audioBuffer,         \* useState(null): "null", or a buffer decoded from the "current" or a "stale" segment text
  progress,            \* useState(0): 0..100
  isBgMusicOn,         \* useState(true)
  bgMusicVolume,       \* useState(0.15), in hundredths
  gainNode,            \* card -> the target of the master gain of the handle bgMusicControlRef refers to, 0 without one
  sourceRef,           \* useRef(null): 0 or the name of a source
  bgMusicControlRef,   \* useRef(null): "null", or the handle it refers to: "live", "stopped"
  rafRef,              \* useRef(null): 0 or the id of the last requested frame
  pendingFrames,       \* card -> frames requested and neither run nor cancelled
  speechRequest,       \* card -> the generateSpeech promise awaited by toggleAudio
  sources,             \* card -> its buffer sources that were started and whose ended handler has not run
  leaked,              \* card -> some ambience handle of it is live and no longer referenced
  sharedAudioContext,  \* module global: 0 for null, else the number of the AudioContext constructed
  activeStopCallback,  \* module global: the registered stop handle
  ops,                 \* number of user operations so far
  lastOp,              \* history: the last operation (of those the properties name), its card, the cards that had isPlaying before it
  ambienceStarted,     \* history: card -> the last step called playProceduralAmbience for it
  userStopped,         \* history: card -> stopped by its own toggle, no toggle on it since
  subtitle,            \* the subtitle line of one card: words.length, progress, currentWordIndex
  decoder,             \* one decoding: the samples and bytes of a payload, base64Audio, the outcome
  voice,               \* the tone and voice profile of App and the last generateSpeech call
  ambience,            \* one ambience handle: its nodes, the audio clock, what stop() scheduled
  upload,              \* the voice upload of InputForm: its state, App's voiceProfile, the stage of the pending analysis
  app,                 \* the history of App: the state, localStorage, the pending generateScript call with the history its closure saw
  image                \* the visual of one card: its segment, the image shown (none, or the segment and the prompt it was made from), the pending generateImage call

vars == <<mounted, render, isPlaying, isLoadingAudio, audioBuffer,
          progress, isBgMusicOn, bgMusicVolume, gainNode, sourceRef,
          bgMusicControlRef, rafRef,
          pendingFrames, speechRequest, sources, leaked,
          sharedAudioContext, activeStopCallback, ops, lastOp,
          userStopped, ambienceStarted, subtitle, decoder, voice, ambience, upload, app, image>>

\* The variables of the playback model.
cardVars == <<mounted, render, isPlaying, isLoadingAudio, audioBuffer,
              progress, isBgMusicOn, bgMusicVolume, gainNode, sourceRef,
              bgMusicControlRef, rafRef,
              pendingFrames, speechRequest, sources, leaked,
              sharedAudioContext, activeStopCallback, ops, lastOp,
              userStopped, ambienceStarted>>

\* ---------------------------------------------------------------- values
NoHandle == [card |-> 0, render |-> 0]
Handle(c, r) == [card |-> c, render |-> r]
\* The positions of the volume slider the model moves between: the initial
\* 0.15 and the maximum 0.5, in hundredths.
DefaultVolume == 15
Volumes == {DefaultVolume, 50}

NoRequest == [render |-> 0, isBgMusicOn |-> FALSE, bgMusicVolume |-> 0,
              text |-> "none"]

\* The playback model looks at no subtitle line and decodes no payload.
NoSubtitle == [words |-> 1, progress |-> 0, index |-> 0]
NoBuffer == [error |-> "pending", numberOfChannels |-> 0, sampleRate |-> 0,
             channelData |-> <<>>]
NoDecoder == [stage |-> "none", samples |-> <<>>, bytes |-> <<>>,
              base64Audio |-> <<>>, buffer |-> NoBuffer, again |-> NoBuffer]

\* useState<VoiceProfile | null>(null), useState<Tone>(Tone.URGENT), and no
\* generateSpeech call yet.
NoProfile == [present |-> FALSE, voiceName |-> ""]
NoCall == [made |-> FALSE, tone |-> "URGENT", profile |-> NoProfile,
           voiceName |-> ""]
NoVoice == [tone |-> "URGENT", profile |-> NoProfile, call |-> NoCall]

\* No ambience handle has been created.
NoAmbience == [stage |-> "none", tone |-> "URGENT", now |-> 0,
               created |-> {}, nodes |-> <<>>, ramp |-> <<>>,
               stopAt |-> <<>>, stopTime |-> 0, timer |-> 0,
               connected |-> FALSE]

\* InputForm after mount: useState(false), useState(null), no file chosen;
\* App's voiceProfile is null.
NoUpload == [isAnalyzingVoice |-> FALSE, uploadError |-> "null",
             voiceProfile |-> NoProfile, stage |-> "idle", file |-> 0,
             topic |-> "", uploads |-> 0]

\* App after mount with an empty localStorage: no history, nothing loading.
NoApp == [history |-> <<>>, persisted |-> <<>>, loading |-> FALSE,
          request |-> <<>>, script |-> 0, clock |-> 1, last |-> "mount"]

\* The image state of a card as mounted, showing the first segment.
NoImage == [segment |-> 1, imageSrc |-> <<>>, isGeneratingImage |-> FALSE,
            request |-> <<>>, showPromptInput |-> FALSE,
            customPrompt |-> "visual", last |-> "mount"]

Min(a, b) == IF a < b THEN a ELSE b
Least(S) == CHOOSE x \in S : \A y \in S : x <= y

\* The program state as one value, so that handlers compose like code.
Cur ==
  [mounted |-> mounted, render |-> render,
   isPlaying |-> isPlaying, isLoadingAudio |-> isLoadingAudio,
   audioBuffer |-> audioBuffer, progress |-> progress,
   isBgMusicOn |-> isBgMusicOn, bgMusicVolume |-> bgMusicVolume,
   gainNode |-> gainNode, sourceRef |-> sourceRef,
   bgMusicControlRef |-> bgMusicControlRef, rafRef |-> rafRef,
   pendingFrames |-> pendingFrames, speechRequest |-> speechRequest,
   sources |-> sources, leaked |-> leaked,
   sharedAudioContext |-> sharedAudioContext,
   activeStopCallback |-> activeStopCallback,
   ambienceStarted |-> [c \in Cards |-> FALSE], overflow |-> FALSE]

\* ------------------------------------------------------- React primitives
\* A state setter of an unmounted component does nothing.
setIsPlaying(s, c, v) ==
  IF s.mounted[c] THEN [s EXCEPT !.isPlaying[c] = v] ELSE s
setIsLoadingAudio(s, c, v) ==
  IF s.mounted[c] THEN [s EXCEPT !.isLoadingAudio[c] = v] ELSE s
setAudioBuffer(s, c, v) ==
  IF s.mounted[c] THEN [s EXCEPT !.audioBuffer[c] = v] ELSE s
setProgress(s, c, v) ==
  IF s.mounted[c] THEN [s EXCEPT !.progress[c] = v] ELSE s
setIsBgMusicOn(s, c, v) ==
  IF s.mounted[c] THEN [s EXCEPT !.isBgMusicOn[c] = v] ELSE s
setBgMusicVolume(s, c, v) ==
  IF s.mounted[c] THEN [s EXCEPT !.bgMusicVolume[c] = v] ELSE s

\* ------------------------------------------------------------- Web Audio
Source(s, c, id) == CHOOSE x \in s.sources[c] : x.id = id

\* AudioBufferSourceNode.stop(): the sound halts at once and the ended
\* event is queued; on a node that already finished it does nothing.
\* Nothing reads the age of a halted source any more.
SourceStop(s, c, id) ==
  [s EXCEPT !.sources[c] =
     {IF x.id = id /\ x.status = "sounding"
      THEN [x EXCEPT !.status = "stoppedq", !.elapsed = 0] ELSE x : x \in @}]

\* ctx.createBufferSource(); source.onended = ...; source.start();
\* sourceRef.current = source -- in the toggleAudio of render r.
SourceStart(s, c, r) ==
  LET n == Cardinality(UNION {s.sources[d] \X {d} : d \in Cards})
  IN [s EXCEPT !.sources[c] =
                  @ \cup {[id |-> r, status |-> "sounding", elapsed |-> 0]},
               !.sourceRef[c] = r,
               !.overflow = @ \/ n >= MaxSources]

\* The stop() of the handle bgMusicControlRef refers to: the master gain
\* ramps to 0 and the oscillators stop.
AmbienceStop(s, c) ==
  [s EXCEPT !.bgMusicControlRef[c] = IF @ = "null" THEN @ ELSE "stopped",
            !.gainNode[c] = 0]

\* bgMusicControlRef.current = playProceduralAmbience(ctx, tone, volume):
\* the handle the ref held before is dropped, stopped or not.
playProceduralAmbience(s, c, volume) ==
  [s EXCEPT !.bgMusicControlRef[c] = "live",
            !.gainNode[c] = volume,
            !.ambienceStarted[c] = TRUE,
            !.leaked[c] = @ \/ s.bgMusicControlRef[c] = "live"]

cancelAnimationFrame(s, c, f) ==
  [s EXCEPT !.pendingFrames[c] = @ \ {f}]

\* rafRef.current = requestAnimationFrame(updateProgress)
requestAnimationFrame(s, c) ==
  LET f == Least((1..2) \ s.pendingFrames[c])
  IN [s EXCEPT !.pendingFrames[c] = @ \cup {f}, !.rafRef[c] = f]

\* ------------------------------------------------------------ card code
\* A getAudioContext that constructs a context on every call.
getAudioContextAlwaysNew(s) ==
  [s EXCEPT !.sharedAudioContext = @ + 1]

\* `if (!sharedAudioContext) sharedAudioContext = new AudioContext()`
getAudioContext(s) ==
  IF s.sharedAudioContext = 0
  THEN [s EXCEPT !.sharedAudioContext = @ + 1] ELSE s

\* A stopAudio that also ends the loading state, which enables the toggle
\* button again while the request is pending.
stopAudioEndsLoading(s, c) ==
  LET s1 == IF s.sourceRef[c] # 0
            THEN [SourceStop(s, c, s.sourceRef[c]) EXCEPT !.sourceRef[c] = 0]
            ELSE s
      s2 == IF s1.bgMusicControlRef[c] # "null"
            THEN [AmbienceStop(s1, c) EXCEPT !.bgMusicControlRef[c] = "null"]
            ELSE s1
      s3 == IF s2.rafRef[c] # 0
            THEN [cancelAnimationFrame(s2, c, s2.rafRef[c])
                    EXCEPT !.rafRef[c] = 0]
            ELSE s2
  IN setIsLoadingAudio(setProgress(setIsPlaying(s3, c, FALSE), c, 0), c, FALSE)

stopAudio(s, c) ==
  LET s1 == IF s.sourceRef[c] # 0
            THEN [SourceStop(s, c, s.sourceRef[c]) EXCEPT !.sourceRef[c] = 0]
            ELSE s
      s2 == IF s1.bgMusicControlRef[c] # "null"
            THEN [AmbienceStop(s1, c) EXCEPT !.bgMusicControlRef[c] = "null"]
            ELSE s1
      s3 == IF s2.rafRef[c] # 0
            THEN [cancelAnimationFrame(s2, c, s2.rafRef[c])
                    EXCEPT !.rafRef[c] = 0]
            ELSE s2
  IN setProgress(setIsPlaying(s3, c, FALSE), c, 0)

\* An updateProgress that stops the audio itself when it reaches the end.
updateProgressStopsAtEnd(s, c, hasBuffer) ==
  IF s.sourceRef[c] = 0 \/ s.sharedAudioContext = 0 THEN s
  ELSE LET elapsed == Source(s, c, s.sourceRef[c]).elapsed
           duration == IF hasBuffer THEN Duration ELSE 0
       IN IF duration > 0
          THEN LET s1 == setProgress(s, c, Min((elapsed * 100) \div duration, 100))
               IN IF elapsed < duration
                  THEN requestAnimationFrame(s1, c)
                  ELSE setProgress(stopAudio(s1, c), c, 100)
          ELSE s

\* An updateProgress that requests the next frame also at the end.
updateProgressAlwaysRearms(s, c, hasBuffer) ==
  IF s.sourceRef[c] = 0 \/ s.sharedAudioContext = 0 THEN s
  ELSE LET elapsed == Source(s, c, s.sourceRef[c]).elapsed
           duration == IF hasBuffer THEN Duration ELSE 0
       IN IF duration > 0
          THEN requestAnimationFrame(
                 setProgress(s, c, Min((elapsed * 100) \div duration, 100)), c)
          ELSE s

\* updateProgress of a render whose audioBuffer state was hasBuffer;
\* elapsed is ctx.currentTime - startTimeRef.current, which is the age of
\* the source sourceRef refers to (both refs are set together).
updateProgress(s, c, hasBuffer) ==
  IF s.sourceRef[c] = 0 \/ s.sharedAudioContext = 0 THEN s
  ELSE LET elapsed == Source(s, c, s.sourceRef[c]).elapsed
           duration == IF hasBuffer THEN Duration ELSE 0
       IN IF duration > 0
          THEN LET s1 == setProgress(s, c, Min((elapsed * 100) \div duration, 100))
               IN IF elapsed < duration
                  THEN requestAnimationFrame(s1, c)
                  ELSE setProgress(s1, c, 100)
          ELSE s

\* The effect on [bgMusicVolume, isPlaying].
volumeEffect(s, c) ==
  IF s.bgMusicControlRef[c] # "null" /\ s.isPlaying[c]
  THEN [s EXCEPT !.gainNode[c] = s.bgMusicVolume[c]] ELSE s

\* The effect on [isBgMusicOn, isPlaying, tone].
ambienceEffect(s, c) ==
  IF s.isPlaying[c]
  THEN LET s0 == getAudioContext(s)
       IN IF s0.isBgMusicOn[c] /\ s0.bgMusicControlRef[c] = "null"
          THEN playProceduralAmbience(s0, c, s0.bgMusicVolume[c])
          ELSE IF ~s0.isBgMusicOn[c] /\ s0.bgMusicControlRef[c] # "null"
               THEN [AmbienceStop(s0, c) EXCEPT !.bgMusicControlRef[c] = "null"]
               ELSE s0
  ELSE s

\* A segment effect that stops the audio but keeps the cached buffer.
segmentEffectKeepsBuffer(s, c) ==
  LET s1 == IF s.isPlaying[c] THEN stopAudio(s, c) ELSE s
  IN setProgress(setAudioBuffer(s1, c, IF s1.audioBuffer[c] = "null"
                                       THEN "null" ELSE "stale"), c, 0)

\* The effect on [segment].
segmentEffect(s, c) ==
  LET s1 == IF s.isPlaying[c] THEN stopAudio(s, c) ELSE s
  IN setProgress(setAudioBuffer(s1, c, "null"), c, 0)

\* The cleanup of the mount effect: it belongs to the first render.
unmountCleanup(s, c) ==
  LET s1 == IF s.sourceRef[c] # 0 THEN SourceStop(s, c, s.sourceRef[c]) ELSE s
      s2 == IF s1.rafRef[c] # 0
            THEN cancelAnimationFrame(s1, c, s1.rafRef[c]) ELSE s1
      s3 == IF s2.bgMusicControlRef[c] # "null" THEN AmbienceStop(s2, c) ELSE s2
      s4 == IF s3.activeStopCallback = Handle(c, 1)
            THEN [s3 EXCEPT !.activeStopCallback = NoHandle] ELSE s3
  IN [s4 EXCEPT !.mounted[c] = FALSE,
                \* the state of the component is gone with it
                !.isPlaying[c] = FALSE, !.isLoadingAudio[c] = FALSE,
                !.audioBuffer[c] = "null", !.progress[c] = 0,
                !.isBgMusicOn[c] = TRUE,
                !.bgMusicVolume[c] = DefaultVolume]

\* An ended handler that clears the slot without comparing it.
onendedClearsSlot(s, c, r) ==
  LET s1 == [setIsPlaying(s, c, FALSE) EXCEPT !.sourceRef[c] = 0]
      s2 == setProgress(s1, c, 100)
      s3 == IF s2.bgMusicControlRef[c] # "null"
            THEN [AmbienceStop(s2, c) EXCEPT !.bgMusicControlRef[c] = "null"]
            ELSE s2
      s4 == IF s3.rafRef[c] # 0
            THEN cancelAnimationFrame(s3, c, s3.rafRef[c]) ELSE s3
  IN [s4 EXCEPT !.activeStopCallback = NoHandle]

\* source.onended of the source created by render r of card c.
onended(s, c, r) ==
  LET s1 == [setIsPlaying(s, c, FALSE) EXCEPT !.sourceRef[c] = 0]
      s2 == setProgress(s1, c, 100)
      s3 == IF s2.bgMusicControlRef[c] # "null"
            THEN [AmbienceStop(s2, c) EXCEPT !.bgMusicControlRef[c] = "null"]
            ELSE s2
      s4 == IF s3.rafRef[c] # 0
            THEN cancelAnimationFrame(s3, c, s3.rafRef[c]) ELSE s3
  IN IF s4.activeStopCallback = Handle(c, r)
     THEN [s4 EXCEPT !.activeStopCallback = NoHandle] ELSE s4

\* toggleAudio from `if (isBgMusicOn)` to updateProgress(), run by the
\* closure of render r that saw isBgMusicOn = bgOn, bgMusicVolume = volume
\* and audioBuffer = hasBuffer.
startPlayback(s, c, r, bgOn, volume, hasBuffer) ==
  LET s1 == IF bgOn THEN playProceduralAmbience(s, c, volume) ELSE s
      s2 == SourceStart(s1, c, r)
  IN updateProgress(s2, c, hasBuffer)

\* A catch block that clears the slot without comparing it.
catchBlockClearsSlot(s, c, r) ==
  [setIsLoadingAudio(setIsPlaying(s, c, FALSE), c, FALSE)
     EXCEPT !.activeStopCallback = NoHandle]

\* A catch block that forgets setIsLoadingAudio(false).
catchBlockKeepsLoading(s, c, r) ==
  LET s1 == setIsPlaying(s, c, FALSE)
  IN IF s1.activeStopCallback = Handle(c, r)
     THEN [s1 EXCEPT !.activeStopCallback = NoHandle] ELSE s1

\* The catch block of toggleAudio, closure of render r.
catchBlock(s, c, r) ==
  LET s1 == setIsLoadingAudio(setIsPlaying(s, c, FALSE), c, FALSE)
  IN IF s1.activeStopCallback = Handle(c, r)
     THEN [s1 EXCEPT !.activeStopCallback = NoHandle] ELSE s1

\* Registers the handle without invoking the one registered before.
acquireWithoutStop(s, c, r) ==
  [s EXCEPT !.activeStopCallback = Handle(c, r)]

\* `if (activeStopCallback) activeStopCallback(); activeStopCallback = stopAudio`
acquire(s, c, r) ==
  LET s1 == IF s.activeStopCallback # NoHandle
            THEN stopAudio(s, s.activeStopCallback.card) ELSE s
  IN [s1 EXCEPT !.activeStopCallback = Handle(c, r)]

\* `if (activeStopCallback === stopAudio) activeStopCallback = null` in the
\* stop branch of toggleAudio, closure of render r.
release(s, c, r) ==
  IF s.activeStopCallback = Handle(c, r)
  THEN [s EXCEPT !.activeStopCallback = NoHandle] ELSE s

\* --------------------------------------------------------------- commit

StateOf(s, c) ==
  <<s.isPlaying[c], s.isLoadingAudio[c], s.audioBuffer[c], s.progress[c],
    s.isBgMusicOn[c], s.bgMusicVolume[c]>>

\* Renders of card c whose closures something can still call or compare.
HeldRenders(s, c) ==
  {1, s.speechRequest[c].render}
    \cup (IF s.activeStopCallback.card = c
          THEN {s.activeStopCallback.render} ELSE {})
    \cup {x.id : x \in s.sources[c]}

\* A card renders again when its state changed or its parent rendered;
\* the closures of the new render are new objects.  Nothing holds the
\* closures of a current render other than the mount render (a toggleAudio
\* that registers stopAudio also sets state), so its name is the least one
\* not held; an unmounted card has no current render.
Rerender(old, s, everyCard) ==
  [s EXCEPT !.render =
     [c \in Cards |->
        IF ~s.mounted[c] THEN 0
        ELSE IF s.render[c] = 1
                /\ ~(everyCard \/ StateOf(old, c) # StateOf(s, c))
             THEN 1
             ELSE Least(RenderIds \ HeldRenders(s, c))]]

\* After the render, the effects whose dependencies changed.
RECURSIVE RunEffects(_, _, _)
RunEffects(old, s, cs) ==
  IF cs = {} THEN s
  ELSE LET c == Least(cs)
           s0 == IF s.mounted[c]
                    /\ (old.isPlaying[c] # s.isPlaying[c]
                        \/ old.bgMusicVolume[c] # s.bgMusicVolume[c])
                 THEN volumeEffect(s, c) ELSE s
           s1 == IF s.mounted[c]
                    /\ (old.isPlaying[c] # s.isPlaying[c]
                        \/ old.isBgMusicOn[c] # s.isBgMusicOn[c])
                 THEN ambienceEffect(s0, c) ELSE s0
       IN RunEffects(old, s1, cs \ {c})

Op(name, c) ==
  [op |-> name, card |-> c,
   was |-> {d \in Cards : mounted[d] /\ isPlaying[d]}]

\* The operations lastOp does not tell apart.
Other == [op |-> "Other", card |-> 0, was |-> {}]

\* limit: 0, or the step is an operation of the user that is explored as
\* one of the first limit operations.
Commit(s, everyCard, op, limit) ==
  /\ limit # 0 => ops < limit
  /\ \E t \in {RunEffects(Cur, Rerender(Cur, s, everyCard), Cards)} :
     /\ ~t.overflow
     /\ ops' = IF limit # 0 THEN ops + 1 ELSE ops
     /\ mounted' = t.mounted
     /\ render' = t.render
     /\ isPlaying' = t.isPlaying
     /\ isLoadingAudio' = t.isLoadingAudio
     /\ audioBuffer' = t.audioBuffer
     /\ progress' = t.progress
     /\ isBgMusicOn' = t.isBgMusicOn
     /\ bgMusicVolume' = t.bgMusicVolume
     /\ gainNode' = t.gainNode
     /\ sourceRef' = t.sourceRef
     /\ bgMusicControlRef' = t.bgMusicControlRef
     /\ rafRef' = t.rafRef
     /\ pendingFrames' = t.pendingFrames
     /\ speechRequest' = t.speechRequest
     /\ sources' = t.sources
     /\ leaked' = t.leaked
     /\ sharedAudioContext' = t.sharedAudioContext
     /\ activeStopCallback' = t.activeStopCallback
     /\ UNCHANGED <<subtitle, decoder, voice, ambience, upload, app, image>>
     /\ lastOp' = op
     /\ ambienceStarted' = t.ambienceStarted
     /\ userStopped' =
          [c \in Cards |->
             IF op.card = c /\ op.op = "ToggleStop" THEN TRUE
             ELSE IF (op.card = c /\ op.op \in {"TogglePlayCached", "ToggleRequest"})
                     \/ ~t.mounted[c]
                  THEN FALSE ELSE userStopped[c]]

\* -------------------------------------------------------------- actions
InitCards ==
  /\ mounted = [c \in Cards |-> TRUE]
  /\ render = [c \in Cards |-> 1]
  /\ isPlaying = [c \in Cards |-> FALSE]
  /\ isLoadingAudio = [c \in Cards |-> FALSE]
  /\ audioBuffer = [c \in Cards |-> "null"]
  /\ progress = [c \in Cards |-> 0]
  /\ isBgMusicOn = [c \in Cards |-> TRUE]
  /\ bgMusicVolume = [c \in Cards |-> DefaultVolume]
  /\ gainNode = [c \in Cards |-> 0]
  /\ sourceRef = [c \in Cards |-> 0]
  /\ bgMusicControlRef = [c \in Cards |-> "null"]
  /\ rafRef = [c \in Cards |-> 0]
  /\ pendingFrames = [c \in Cards |-> {}]
  /\ speechRequest = [c \in Cards |-> NoRequest]
  /\ sources = [c \in Cards |-> {}]
  /\ leaked = [c \in Cards |-> FALSE]
  /\ sharedAudioContext = 0
  /\ activeStopCallback = NoHandle
  /\ ops = 0
  /\ lastOp = Other
  /\ userStopped = [c \in Cards |-> FALSE]
  /\ ambienceStarted = [c \in Cards |-> FALSE]

Init ==
  /\ InitCards
  /\ subtitle = NoSubtitle
  /\ decoder = NoDecoder
  /\ voice = NoVoice
  /\ ambience = NoAmbience
  /\ upload = NoUpload
  /\ app = NoApp
  /\ image = NoImage

\* toggleAudio, the click finds isPlaying = true.
ToggleStop(c) ==
  /\ mounted[c] /\ ~isLoadingAudio[c] /\ isPlaying[c]
  /\ Commit(release(stopAudio(getAudioContext(Cur), c), c, render[c]),
            FALSE, Op("ToggleStop", c), MaxOps)

\* A toggleAudio that calls generateSpeech although a buffer is cached.
ToggleIgnoresCache(c) ==
  /\ mounted[c] /\ ~isLoadingAudio[c] /\ ~isPlaying[c] /\ audioBuffer[c] # "null"
  /\ LET s1 == acquire(getAudioContext(Cur), c, render[c])
         s2 == setIsLoadingAudio(setIsPlaying(s1, c, TRUE), c, TRUE)
     IN Commit([s2 EXCEPT !.speechRequest[c] =
                  [render |-> render[c], isBgMusicOn |-> isBgMusicOn[c],
                   bgMusicVolume |-> bgMusicVolume[c], text |-> "current"]],
               FALSE, Op("TogglePlayCached", c), MaxOps)

\* toggleAudio, isPlaying = false and a cached audioBuffer: runs to its end.
\* A replay of a card whose stopped source has not delivered its ended
\* event yet is also explored after the last of the other operations.
TogglePlayCached(c) ==
  /\ mounted[c] /\ ~isLoadingAudio[c] /\ ~isPlaying[c] /\ audioBuffer[c] # "null"
  /\ LET s1 == acquire(getAudioContext(Cur), c, render[c])
         s2 == setIsPlaying(s1, c, TRUE)
     IN Commit(startPlayback(s2, c, render[c], isBgMusicOn[c],
                             bgMusicVolume[c], TRUE),
               FALSE, Op("TogglePlayCached", c),
               IF \E x \in sources[c] : x.status = "stoppedq"
               THEN MaxOps + 1 ELSE MaxOps)

\* toggleAudio, isPlaying = false and no audioBuffer: up to the await.
ToggleRequest(c) ==
  /\ mounted[c] /\ ~isLoadingAudio[c] /\ ~isPlaying[c] /\ audioBuffer[c] = "null"
  /\ LET s1 == acquire(getAudioContext(Cur), c, render[c])
         s2 == setIsLoadingAudio(setIsPlaying(s1, c, TRUE), c, TRUE)
     IN Commit([s2 EXCEPT !.speechRequest[c] =
                  [render |-> render[c], isBgMusicOn |-> isBgMusicOn[c],
                   bgMusicVolume |-> bgMusicVolume[c], text |-> "current"]],
               FALSE, Op("ToggleRequest", c), MaxOps)

\* A continuation that returns at once when the card was stopped meanwhile,
\* before it reaches setIsLoadingAudio(false).
SpeechResolvedReturnsEarly(c) ==
  /\ speechRequest[c] # NoRequest
  /\ LET r == speechRequest[c]
         s1 == setIsLoadingAudio(setAudioBuffer(Cur, c, r.text), c, FALSE)
         s2 == IF isPlaying[c]
               THEN startPlayback(s1, c, r.render, r.isBgMusicOn,
                                  r.bgMusicVolume, FALSE)
               ELSE Cur
     IN Commit([s2 EXCEPT !.speechRequest[c] = NoRequest],
               FALSE, Op("SpeechResolved", c), 0)

\* generateSpeech resolved with a decodable payload: toggleAudio resumes.
SpeechResolved(c) ==
  /\ speechRequest[c] # NoRequest
  /\ LET r == speechRequest[c]
         s1 == setIsLoadingAudio(setAudioBuffer(Cur, c, r.text), c, FALSE)
         s2 == startPlayback(s1, c, r.render, r.isBgMusicOn,
                                  r.bgMusicVolume, FALSE)
     IN Commit([s2 EXCEPT !.speechRequest[c] = NoRequest],
               FALSE, Op("SpeechResolved", c), 0)

\* generateSpeech rejected, or the payload made the decoding throw.
SpeechRejected(c) ==
  /\ speechRequest[c] # NoRequest
  /\ LET s1 == catchBlock(Cur, c, speechRequest[c].render)
     IN Commit([s1 EXCEPT !.speechRequest[c] = NoRequest],
               FALSE, Op("SpeechRejected", c), 0)

\* The ended event of source id of card c is delivered.
OnEnded(c, id) ==
  /\ \E x \in sources[c] : x.id = id /\ x.status \in {"stoppedq", "finishedq"}
  /\ LET s1 == onended(Cur, c, id)
     IN Commit([s1 EXCEPT !.sources[c] = {x \in @ : x.id # id}], FALSE,
               IF Source(Cur, c, id).status = "finishedq"
                  /\ sourceRef[c] = id /\ mounted[c] /\ isPlaying[c]
               THEN Op("NaturalEnd", c) ELSE Other, 0)

\* A display frame runs the updateProgress it was requested with.
Frame(c, f) ==
  /\ f \in pendingFrames[c]
  /\ Commit(updateProgress([Cur EXCEPT !.pendingFrames[c] = @ \ {f}], c, TRUE),
            FALSE, Op("Frame", c), 0)

\* The audio clock advances; a sounding source that reaches the end of its
\* buffer falls silent and its ended event is queued.
Tick ==
  /\ \E c \in Cards : \E x \in sources[c] : x.status = "sounding"
  /\ Commit([Cur EXCEPT !.sources =
               [c \in Cards |->
                  {IF x.status = "sounding"
                   THEN [x EXCEPT
                           !.elapsed = @ + 1,
                           !.status = IF x.elapsed + 1 >= Duration
                                      THEN "finishedq" ELSE "sounding"]
                   ELSE x : x \in sources[c]}]],
            FALSE, Other, 0)

\* The music button: setIsBgMusicOn(!isBgMusicOn).  A flip of the switch of
\* a card that plays is also explored after the last of the other
\* operations.
ToggleMusic(c) ==
  /\ mounted[c]
  /\ Commit(setIsBgMusicOn(Cur, c, ~isBgMusicOn[c]), FALSE, Other,
            IF isPlaying[c] /\ ~isLoadingAudio[c] THEN MaxOps + 1 ELSE MaxOps)

\* The volume slider, which is shown while the music switch is on:
\* setBgMusicVolume(parseFloat(e.target.value)).
SetVolume(c, v) ==
  /\ mounted[c] /\ isBgMusicOn[c] /\ v # bgMusicVolume[c]
  /\ Commit(setBgMusicVolume(Cur, c, v), FALSE, Other, MaxOps)

\* App renders without a new script (typing a topic, opening the history,
\* a voice analysis that finished): every card renders again.  Only leaving
\* the mount render is a change, so the step needs no budget.
ParentRender ==
  /\ \E c \in Cards : mounted[c] /\ render[c] = 1
  /\ Commit(Cur, TRUE, Other, 0)

\* The segment prop of card c is a new object: the text a pending request
\* was made for is no longer the text of the card.
NewSegment(s, c) ==
  [s EXCEPT !.speechRequest[c].text = IF @ = "none" THEN @ ELSE "stale"]

\* App sets a new script of n segments: the cards beyond n unmount, the
\* others get a new segment prop.
RECURSIVE ApplyScript(_, _, _)
ApplyScript(s, n, cs) ==
  IF cs = {} THEN s
  ELSE LET c == Least(cs)
           s1 == IF c > n
                 THEN (IF s.mounted[c] THEN unmountCleanup(s, c) ELSE s)
                 ELSE IF s.mounted[c] THEN segmentEffect(NewSegment(s, c), c)
                 ELSE s
       IN ApplyScript(s1, n, cs \ {c})

NewScript(n) ==
  /\ \E c \in Cards : mounted[c]
  /\ n <= Cardinality({c \in Cards : mounted[c]})
  /\ Commit(ApplyScript(Cur, n, Cards), TRUE, Op("NewScript", n), MaxOps)

Next ==
  \/ \E c \in Cards : ToggleStop(c)
  \/ \E c \in Cards : TogglePlayCached(c)
  \/ \E c \in Cards : ToggleRequest(c)
  \/ \E c \in Cards : SpeechResolved(c)
  \/ \E c \in Cards : SpeechRejected(c)
  \/ \E c \in Cards : \E id \in RenderIds : OnEnded(c, id)
  \/ \E c \in Cards : \E f \in 1..2 : Frame(c, f)
  \/ Tick
  \/ \E c \in Cards : ToggleMusic(c)
  \/ \E c \in Cards : \E v \in Volumes : SetVolume(c, v)
  \/ ParentRender
  \/ \E n \in 0..NumCards : NewScript(n)

Spec == Init /\ [][Next]_vars

\* ------------------------------------------------------------- subtitles
\* The values of the progress state: percent.
ProgressValues == 0..100

\* Math.floor((progress / 100) * words.length) without the Math.min.
currentWordIndexUnclamped(p, n) == (p * n) \div 100

\* An index that wraps around at the end of the line.
currentWordIndexWrapped(p, n) == ((p * n) \div 100) % n

\* Math.min(Math.floor((progress / 100) * words.length), words.length - 1)
currentWordIndex(p, n) == Min((p * n) \div 100, n - 1)

\* The first render of a card: progress is useState(0) and the text has
\* some number of words; split(' ') of any text has at least one element.
InitSubtitle ==
  /\ InitCards
  /\ decoder = NoDecoder
  /\ voice = NoVoice
  /\ \E n \in 1..MaxWords :
       subtitle = [words |-> n, progress |-> 0,
                   index |-> currentWordIndex(0, n)]
  /\ ambience = NoAmbience
  /\ upload = NoUpload
  /\ app = NoApp
  /\ image = NoImage

\* setProgress(p) and the render that follows.
ProgressShown(p) ==
  /\ p # subtitle.progress
  /\ subtitle' = [subtitle EXCEPT
                    !.progress = p,
                    !.index = currentWordIndex(p, subtitle.words)]
  /\ UNCHANGED <<cardVars, decoder, voice, ambience, upload, app, image>>

\* The render with a new segment prop whose text has n words.
SegmentShown(n) ==
  /\ n # subtitle.words
  /\ subtitle' = [subtitle EXCEPT
                    !.words = n,
                    !.index = currentWordIndex(subtitle.progress, n)]
  /\ UNCHANGED <<cardVars, decoder, voice, ambience, upload, app, image>>

NextSubtitle ==
  \/ \E p \in ProgressValues : ProgressShown(p)
  \/ \E n \in 1..MaxWords : SegmentShown(n)

SpecSubtitle == InitSubtitle /\ [][NextSubtitle]_vars

\* ----------------------------------------------------------------- voice
\* The members of enum Tone, and OTHER for a value outside of it (the tone
\* of a history item is not validated).
Tones == {"URGENT", "MOTIVATIONAL", "CALM", "STORYTELLING", "HUMOROUS",
          "AUTHORITATIVE", "PERSONAL", "OTHER"}

\* The voiceName of a profile is the string the analysis answered with:
\* one of the five voices, another name, or the empty string.
ProfileNames == {"Fenrir", "Charon", "Zephyr", "Puck", "Kore", "Aoede", ""}
Profiles == {NoProfile} \cup {[present |-> TRUE, voiceName |-> v] : v \in ProfileNames}

getVoiceForTone(tone) ==
  CASE tone = "URGENT" -> "Fenrir"
    [] tone = "AUTHORITATIVE" -> "Charon"
    [] tone = "MOTIVATIONAL" -> "Zephyr"
    [] tone = "HUMOROUS" -> "Puck"
    [] tone = "STORYTELLING" -> "Puck"
    [] tone = "PERSONAL" -> "Zephyr"
    [] tone = "CALM" -> "Kore"
    [] OTHER -> "Kore"

\* voiceProfile?.voiceName
voiceOverride(profile) ==
  IF profile.present THEN profile.voiceName ELSE "undefined"

\* A generateSpeech that does not look at the override.
voiceNameFromToneOnly(tone, override) == getVoiceForTone(tone)

\* const voiceName = voiceOverride || getVoiceForTone(tone): undefined and
\* the empty string are falsy.
voiceName(tone, override) ==
  IF override \in {"undefined", ""} THEN getVoiceForTone(tone) ELSE override

InitVoice ==
  /\ InitCards
  /\ subtitle = NoSubtitle
  /\ decoder = NoDecoder
  /\ voice = NoVoice
  /\ ambience = NoAmbience
  /\ upload = NoUpload
  /\ app = NoApp
  /\ image = NoImage

\* The tone select of the form, or a history item is loaded.
SetTone(t) ==
  /\ t # voice.tone
  /\ voice' = [voice EXCEPT !.tone = t]
  /\ UNCHANGED <<cardVars, subtitle, decoder, ambience, upload, app, image>>

\* A voice sample was analysed, or the profile is removed.
SetVoiceProfile(p) ==
  /\ p # voice.profile
  /\ voice' = [voice EXCEPT !.profile = p]
  /\ UNCHANGED <<cardVars, subtitle, decoder, ambience, upload, app, image>>

\* toggleAudio of a card calls generateSpeech(segment.text, tone, voiceOverride).
RequestSpeech ==
  /\ voice' = [voice EXCEPT !.call =
                 [made |-> TRUE, tone |-> voice.tone, profile |-> voice.profile,
                  voiceName |-> voiceName(voice.tone,
                                          voiceOverride(voice.profile))]]
  /\ UNCHANGED <<cardVars, subtitle, decoder, ambience, upload, app, image>>

NextVoice ==
  \/ \E t \in Tones : SetTone(t)
  \/ \E p \in Profiles : SetVoiceProfile(p)
  \/ RequestSpeech

SpecVoice == InitVoice /\ [][NextVoice]_vars

\* --------------------------------------------------------------- decoder
\* A base64 string is the sequence of its characters: the 6-bit value of a
\* character of the alphabet, or Pad for '='.  A binary string, a Uint8Array
\* and an ArrayBuffer are sequences of 0..255.
Pad == 64

\* Signed 16-bit samples and trailing bytes the payloads are built from.
SampleValues == {-32768, -255, 0, 1, 32767}
TrailingBytes == {<<>>, <<0>>, <<255>>}

\* The payload of the speech service: 16-bit little-endian PCM ...
RECURSIVE pcmBytes(_)
pcmBytes(samples) ==
  IF samples = <<>> THEN <<>>
  ELSE LET u == Head(samples) % 65536
       IN <<u % 256, u \div 256>> \o pcmBytes(Tail(samples))

\* ... in base64 (inlineData.data).
RECURSIVE btoa(_)
btoa(b) ==
  IF Len(b) = 0 THEN <<>>
  ELSE IF Len(b) = 1
  THEN <<b[1] \div 4, (b[1] % 4) * 16, Pad, Pad>>
  ELSE IF Len(b) = 2
  THEN <<b[1] \div 4, (b[1] % 4) * 16 + b[2] \div 16, (b[2] % 16) * 4, Pad>>
  ELSE <<b[1] \div 4, (b[1] % 4) * 16 + b[2] \div 16,
         (b[2] % 16) * 4 + b[3] \div 64, b[3] % 64>>
         \o btoa(SubSeq(b, 4, Len(b)))

RECURSIVE atobBytes(_)
atobBytes(d) ==
  IF Len(d) < 2 THEN <<>>
  ELSE IF Len(d) = 2 THEN <<d[1] * 4 + d[2] \div 16>>
  ELSE IF Len(d) = 3
  THEN <<d[1] * 4 + d[2] \div 16, (d[2] % 16) * 16 + d[3] \div 4>>
  ELSE <<d[1] * 4 + d[2] \div 16, (d[2] % 16) * 16 + d[3] \div 4,
         (d[3] % 4) * 64 + d[4]>>
         \o atobBytes(SubSeq(d, 5, Len(d)))

\* window.atob: the padding is removed; a remainder of one character throws.
atob(base64) ==
  LET d == SelectSeq(base64, LAMBDA ch : ch # Pad)
  IN IF Len(d) % 4 = 1
     THEN [error |-> "InvalidCharacterError", bytes |-> <<>>]
     ELSE [error |-> "none", bytes |-> atobBytes(d)]

\* bytes[i] = binaryString.charCodeAt(i)
base64ToBytes(base64) == atob(base64)

\* An element of a Uint16Array over two bytes: no sign.
Uint16(lo, hi) == lo + 256 * hi

\* An element of the Int16Array over two bytes (little-endian platform).
Int16(lo, hi) ==
  IF lo + 256 * hi >= 32768 THEN lo + 256 * hi - 65536 ELSE lo + 256 * hi

Thrown(e) == [NoBuffer EXCEPT !.error = e]

\* new Int16Array(data.buffer, data.byteOffset, data.byteLength / 2): the
\* length is truncated to an integer; ctx.createBuffer(1, 0, 24000) throws.
\* A sample of the channel is the fraction num / den.
pcmToAudioBuffer(data) ==
  LET frameCount == Len(data) \div 2
  IN IF frameCount = 0 THEN Thrown("NotSupportedError")
     ELSE [error |-> "none", numberOfChannels |-> 1, sampleRate |-> 24000,
           channelData |->
             [i \in 1..frameCount |->
                [num |-> Int16(data[2 * i - 1], data[2 * i]), den |-> 32768]]]

\* Lines 289-290 of toggleAudio; an exception goes to its catch block.
decode(base64Audio) ==
  LET pcm == base64ToBytes(base64Audio)
  IN IF pcm.error # "none" THEN Thrown(pcm.error)
     ELSE pcmToAudioBuffer(pcm.bytes)

RECURSIVE SeqsUpTo(_, _)
SeqsUpTo(S, n) ==
  IF n = 0 THEN {<<>>}
  ELSE LET T == SeqsUpTo(S, n - 1)
       IN T \cup {Append(q, x) : q \in {y \in T : Len(y) = n - 1}, x \in S}

InitDecoder ==
  /\ InitCards
  /\ subtitle = NoSubtitle
  /\ voice = NoVoice
  /\ \E q \in SeqsUpTo(SampleValues, MaxSamples) : \E tr \in TrailingBytes :
       decoder = [NoDecoder EXCEPT !.stage = "pcm", !.samples = q,
                                   !.bytes = pcmBytes(q) \o tr]
  /\ ambience = NoAmbience
  /\ upload = NoUpload
  /\ app = NoApp
  /\ image = NoImage

\* The speech service answers with the payload in base64.
Encode ==
  /\ decoder.stage = "pcm"
  /\ decoder' = [decoder EXCEPT !.stage = "encoded",
                                !.base64Audio = btoa(decoder.bytes)]
  /\ UNCHANGED <<cardVars, subtitle, voice, ambience, upload, app, image>>

\* toggleAudio decodes the answer.
Decode ==
  /\ decoder.stage = "encoded"
  /\ decoder' = [decoder EXCEPT !.stage = "decoded",
                                !.buffer = decode(decoder.base64Audio)]
  /\ UNCHANGED <<cardVars, subtitle, voice, ambience, upload, app, image>>

\* Another play attempt gets the same answer and decodes it.
DecodeAgain ==
  /\ decoder.stage = "decoded"
  /\ decoder' = [decoder EXCEPT !.stage = "decodedTwice",
                                !.again = decode(decoder.base64Audio)]
  /\ UNCHANGED <<cardVars, subtitle, voice, ambience, upload, app, image>>

NextDecoder == Encode \/ Decode \/ DecodeAgain

SpecDecoder == InitDecoder /\ [][NextDecoder]_vars

\* ------------------------------------------------- the ambience handle
\* Times are in tenths of a second: `end = ctx.currentTime + 1.0` and
\* setTimeout(..., 1100).
FadeTime == 10
DisconnectDelay == 11
MaxTime == 12

\* The number of createOsc calls of the tone's case of the switch.
layers(tone) ==
  CASE tone = "URGENT" -> 2
    [] tone \in {"MOTIVATIONAL", "HUMOROUS"} -> 3
    [] tone \in {"CALM", "PERSONAL"} -> 3
    [] tone = "AUTHORITATIVE" -> 2
    [] OTHER -> 2

\* Every oscillator ctx.createOscillator() made for the handle: one per
\* createOsc call, and the lfo of the urgent tone (named 0).
createdOscillators(tone) ==
  (1..layers(tone)) \cup (IF tone = "URGENT" THEN {0} ELSE {})

\* nodes.push(osc, gain) of each createOsc call, in order.
RECURSIVE createOsc(_)
createOsc(n) ==
  IF n = 0 THEN <<>>
  ELSE createOsc(n - 1) \o <<[kind |-> "OscillatorNode", id |-> n],
                             [kind |-> "GainNode", id |-> n]>>

\* A nodes array the lfo and its gain are not pushed to.
nodesWithoutLfo(tone) == createOsc(layers(tone))

\* The nodes array when playProceduralAmbience returns.
nodes(tone) ==
  createOsc(layers(tone))
    \o (IF tone = "URGENT"
        THEN <<[kind |-> "OscillatorNode", id |-> 0],
               [kind |-> "GainNode", id |-> 0]>>
        ELSE <<>>)

InitAmbience ==
  /\ InitCards
  /\ subtitle = NoSubtitle
  /\ decoder = NoDecoder
  /\ voice = NoVoice
  /\ ambience = NoAmbience
  /\ upload = NoUpload
  /\ app = NoApp
  /\ image = NoImage

\* playProceduralAmbience(ctx, tone, volume) at some time of the audio clock.
PlayAmbience(tone) ==
  /\ ambience.stage = "none"
  /\ ambience' = [ambience EXCEPT
                    !.stage = "live", !.tone = tone,
                    !.created = createdOscillators(tone),
                    !.nodes = nodes(tone),
                    !.stopAt = [o \in createdOscillators(tone) |-> -1],
                    !.connected = TRUE]
  /\ UNCHANGED <<cardVars, subtitle, decoder, voice, upload, app, image>>

\* The stop() of the handle.
StopAmbience ==
  /\ ambience.stage = "live"
  /\ LET end == ambience.now + FadeTime
         stopped == {ambience.nodes[i].id : i \in
                       {j \in DOMAIN ambience.nodes :
                          ambience.nodes[j].kind = "OscillatorNode"}}
     IN ambience' = [ambience EXCEPT
                       !.stage = "stopping",
                       !.stopTime = ambience.now,
                       !.ramp = <<[value |-> 0, endTime |-> end]>>,
                       !.stopAt = [o \in DOMAIN @ |->
                                     IF o \in stopped THEN end ELSE @[o]],
                       !.timer = ambience.now + DisconnectDelay]
  /\ UNCHANGED <<cardVars, subtitle, decoder, voice, upload, app, image>>

\* The timeout of stop() runs, not before its delay: masterGain.disconnect().
DisconnectAmbience ==
  /\ ambience.stage = "stopping"
  /\ ambience.now >= ambience.timer
  /\ ambience' = [ambience EXCEPT !.stage = "released", !.connected = FALSE]
  /\ UNCHANGED <<cardVars, subtitle, decoder, voice, upload, app, image>>

\* The clock advances.
AdvanceClock ==
  /\ ambience.now < MaxTime
  /\ ambience' = [ambience EXCEPT !.now = @ + 1]
  /\ UNCHANGED <<cardVars, subtitle, decoder, voice, upload, app, image>>

NextAmbience ==
  \/ \E tone \in Tones : PlayAmbience(tone)
  \/ StopAmbience
  \/ DisconnectAmbience
  \/ AdvanceClock

SpecAmbience == InitAmbience /\ [][NextAmbience]_vars

\* ---------------------------------------------------- the voice upload
MaxUploads == 3

\* File sizes in MB around the limit of 5 MB.
FileSizes == {1, 5, 6}

\* The upload area offers the file dialog.
UploadOffered == ~upload.voiceProfile.present /\ ~upload.isAnalyzingVoice

\* The disabled attribute of the Generate button, with no generation
\* running (isLoading = false).
GenerateDisabled == upload.topic = "" \/ upload.isAnalyzingVoice

InitUpload ==
  /\ InitCards
  /\ subtitle = NoSubtitle
  /\ decoder = NoDecoder
  /\ voice = NoVoice
  /\ ambience = NoAmbience
  /\ upload = NoUpload
  /\ app = NoApp
  /\ image = NoImage

\* handleFileUpload up to reader.readAsDataURL(file) for a file of size MB.
ChooseFile(size) ==
  /\ UploadOffered /\ upload.stage = "idle"
  /\ upload.uploads < MaxUploads
  /\ upload' = IF size > 5
               THEN [upload EXCEPT !.uploadError = "File too large",
                                   !.file = size, !.uploads = @ + 1]
               ELSE [upload EXCEPT !.uploadError = "null",
                                   !.isAnalyzingVoice = TRUE,
                                   !.stage = "reading",
                                   !.file = size, !.uploads = @ + 1]
  /\ UNCHANGED <<cardVars, subtitle, decoder, voice, ambience, app, image>>

\* The file dialog is closed without a file: `if (!file) return`.
ChooseNothing ==
  /\ UploadOffered /\ upload.stage = "idle"
  /\ upload.uploads < MaxUploads
  /\ upload' = [upload EXCEPT !.uploads = @ + 1]
  /\ UNCHANGED <<cardVars, subtitle, decoder, voice, ambience, app, image>>

\* reader.onload: the callback runs up to `await analyzeVoiceStyle(base64)`.
ReaderLoaded ==
  /\ upload.stage = "reading"
  /\ upload' = [upload EXCEPT !.stage = "analyzing"]
  /\ UNCHANGED <<cardVars, subtitle, decoder, voice, ambience, app, image>>

\* The read fails: the reader has no onerror handler, nothing runs.
ReaderFailed ==
  /\ upload.stage = "reading"
  /\ upload' = [upload EXCEPT !.stage = "unread"]
  /\ UNCHANGED <<cardVars, subtitle, decoder, voice, ambience, app, image>>

\* analyzeVoiceStyle resolved: the onload callback resumes.
AnalysisResolved(name) ==
  /\ upload.stage = "analyzing"
  /\ upload' = [upload EXCEPT
                  !.voiceProfile = [present |-> TRUE, voiceName |-> name],
                  !.isAnalyzingVoice = FALSE, !.stage = "idle"]
  /\ UNCHANGED <<cardVars, subtitle, decoder, voice, ambience, app, image>>

\* analyzeVoiceStyle rejected: the promise of the onload callback rejects.
\* The try block of handleFileUpload has been left long ago, so its catch
\* does not run and no state is set.
AnalysisRejected ==
  /\ upload.stage = "analyzing"
  /\ upload' = [upload EXCEPT !.stage = "rejected"]
  /\ UNCHANGED <<cardVars, subtitle, decoder, voice, ambience, app, image>>

\* The topic field: setTopic(e.target.value).
TypeTopic(v) ==
  /\ v # upload.topic
  /\ upload' = [upload EXCEPT !.topic = v]
  /\ UNCHANGED <<cardVars, subtitle, decoder, voice, ambience, app, image>>

\* The Reset button of the matched profile: setVoiceProfile(null).
ResetProfile ==
  /\ upload.voiceProfile.present
  /\ upload' = [upload EXCEPT !.voiceProfile = NoProfile]
  /\ UNCHANGED <<cardVars, subtitle, decoder, voice, ambience, app, image>>

NextUpload ==
  \/ \E size \in FileSizes : ChooseFile(size)
  \/ ChooseNothing
  \/ ReaderLoaded
  \/ ReaderFailed
  \/ \E name \in ProfileNames : AnalysisResolved(name)
  \/ AnalysisRejected
  \/ \E v \in {"", "topic"} : TypeTopic(v)
  \/ ResetProfile

SpecUpload == InitUpload /\ [][NextUpload]_vars

\* ----------------------------------------------------------- the history
\* `.slice(0, 20)`, scaled down; the generations explored.
HistoryLimit == 2
MaxGenerations == 3

\* The first n items of a sequence: slice(0, n).
slice(q, n) == SubSeq(q, 1, Min(Len(q), n))

\* history.filter(item => item.id !== id)
RECURSIVE filterOut(_, _)
filterOut(q, id) ==
  IF q = <<>> THEN <<>>
  ELSE (IF Head(q) = id THEN <<>> ELSE <<Head(q)>>) \o filterOut(Tail(q), id)

Items(q) == {q[i] : i \in DOMAIN q}

\* setScript(newScript); saveToHistory(newScript, tone, duration) of the
\* render whose history state was closureHistory.  An item is named by its
\* id, Date.now() of the moment it is made.
saveToHistory(a, closureHistory) ==
  LET updatedHistory == slice(<<a.clock>> \o closureHistory, HistoryLimit)
  IN [a EXCEPT !.history = updatedHistory, !.persisted = updatedHistory,
               !.script = a.clock, !.clock = @ + 1]

InitHistory ==
  /\ InitCards
  /\ subtitle = NoSubtitle
  /\ decoder = NoDecoder
  /\ voice = NoVoice
  /\ ambience = NoAmbience
  /\ upload = NoUpload
  /\ app = NoApp
  /\ image = NoImage

\* handleGenerate up to `await generateScript(...)`; the Generate button is
\* disabled while loading.
Generate ==
  /\ ~app.loading /\ app.clock <= MaxGenerations
  /\ app' = [app EXCEPT !.loading = TRUE, !.request = <<app.history>>,
                        !.last = "generate"]
  /\ UNCHANGED <<cardVars, subtitle, decoder, voice, ambience, upload, image>>

\* generateScript resolved: handleGenerate resumes.
GenerateResolved ==
  /\ app.request # <<>>
  /\ app' = [saveToHistory(app, app.request[1]) EXCEPT
               !.loading = FALSE, !.request = <<>>, !.last = "saved"]
  /\ UNCHANGED <<cardVars, subtitle, decoder, voice, ambience, upload, image>>

\* generateScript rejected: the catch and finally blocks.
GenerateRejected ==
  /\ app.request # <<>>
  /\ app' = [app EXCEPT !.loading = FALSE, !.request = <<>>, !.last = "failed"]
  /\ UNCHANGED <<cardVars, subtitle, decoder, voice, ambience, upload, image>>

deleteHistoryItem(id) ==
  /\ id \in Items(app.history)
  /\ LET updatedHistory == filterOut(app.history, id)
     IN app' = [app EXCEPT !.history = updatedHistory,
                           !.persisted = updatedHistory, !.last = "delete"]
  /\ UNCHANGED <<cardVars, subtitle, decoder, voice, ambience, upload, image>>

\* clearHistory, confirmed: localStorage.removeItem leaves no history stored.
clearHistory ==
  /\ app.history # <<>>
  /\ app' = [app EXCEPT !.history = <<>>, !.persisted = <<>>, !.last = "clear"]
  /\ UNCHANGED <<cardVars, subtitle, decoder, voice, ambience, upload, image>>

loadHistoryItem(id) ==
  /\ id \in Items(app.history) /\ id # app.script
  /\ app' = [app EXCEPT !.script = id, !.last = "load"]
  /\ UNCHANGED <<cardVars, subtitle, decoder, voice, ambience, upload, image>>

\* The page is loaded again: the mount effect reads localStorage; a pending
\* call of the page before is gone.
Reload ==
  /\ app.last # "mount"
  /\ app' = [app EXCEPT !.history = app.persisted, !.loading = FALSE,
                        !.request = <<>>, !.script = 0, !.last = "mount"]
  /\ UNCHANGED <<cardVars, subtitle, decoder, voice, ambience, upload, image>>

NextHistory ==
  \/ Generate
  \/ GenerateResolved
  \/ GenerateRejected
  \/ \E id \in 1..MaxGenerations : deleteHistoryItem(id)
  \/ clearHistory
  \/ \E id \in 1..MaxGenerations : loadHistoryItem(id)
  \/ Reload

SpecHistory == InitHistory /\ [][NextHistory]_vars

\* ------------------------------------------------------------- the visual
\* The segments a card is given in turn.
MaxSegments == 4

InitImage ==
  /\ InitCards
  /\ subtitle = NoSubtitle
  /\ decoder = NoDecoder
  /\ voice = NoVoice
  /\ ambience = NoAmbience
  /\ upload = NoUpload
  /\ app = NoApp
  /\ image = NoImage

\* showPromptInput ? customPrompt : segment.visual
promptToUse == IF image.showPromptInput THEN image.customPrompt ELSE "visual"

\* handleGenerateImage up to `await generateImage(promptToUse)`: the prompt,
\* edited or not, is of the segment of the render that was clicked.  The
\* button is there while no image is shown and nothing is being generated.
handleGenerateImage ==
  /\ image.imageSrc = <<>> /\ ~image.isGeneratingImage
  /\ image' = [image EXCEPT !.isGeneratingImage = TRUE,
                            !.request = <<[segment |-> image.segment,
                                            prompt |-> promptToUse]>>,
                            !.last = "click"]
  /\ UNCHANGED <<cardVars, subtitle, decoder, voice, ambience, upload, app>>

\* generateImage resolved: setImageSrc, setShowPromptInput(false), finally.
ImageResolved ==
  /\ image.request # <<>>
  /\ image' = [image EXCEPT !.imageSrc = image.request,
                            !.showPromptInput = FALSE,
                            !.isGeneratingImage = FALSE,
                            !.request = <<>>, !.last = "resolved"]
  /\ UNCHANGED <<cardVars, subtitle, decoder, voice, ambience, upload, app>>

\* generateImage rejected: the catch logs, finally ends the loading.
ImageRejected ==
  /\ image.request # <<>>
  /\ image' = [image EXCEPT !.isGeneratingImage = FALSE,
                            !.request = <<>>, !.last = "rejected"]
  /\ UNCHANGED <<cardVars, subtitle, decoder, voice, ambience, upload, app>>

\* The card is rendered with another segment: the image part of the effect
\* on [segment].
SegmentChanged(n) ==
  /\ n # image.segment
  /\ image' = [image EXCEPT !.segment = n, !.customPrompt = "visual",
                            !.imageSrc = <<>>, !.showPromptInput = FALSE,
                            !.last = "segment"]
  /\ UNCHANGED <<cardVars, subtitle, decoder, voice, ambience, upload, app>>

\* The pencil button.
TogglePromptInput ==
  /\ image.imageSrc = <<>> /\ ~image.isGeneratingImage
  /\ image' = [image EXCEPT !.showPromptInput = ~@, !.last = "pencil"]
  /\ UNCHANGED <<cardVars, subtitle, decoder, voice, ambience, upload, app>>

\* Typing in the prompt editor.
EditPrompt ==
  /\ image.showPromptInput /\ image.imageSrc = <<>>
  /\ image.customPrompt = "visual"
  /\ image' = [image EXCEPT !.customPrompt = "edited", !.last = "edit"]
  /\ UNCHANGED <<cardVars, subtitle, decoder, voice, ambience, upload, app>>

\* The button on the image: setImageSrc(null).
RemoveImage ==
  /\ image.imageSrc # <<>>
  /\ image' = [image EXCEPT !.imageSrc = <<>>, !.last = "remove"]
  /\ UNCHANGED <<cardVars, subtitle, decoder, voice, ambience, upload, app>>

NextImage ==
  \/ handleGenerateImage
  \/ ImageResolved
  \/ ImageRejected
  \/ \E n \in 1..MaxSegments : SegmentChanged(n)
  \/ TogglePromptInput
  \/ EditPrompt
  \/ RemoveImage

SpecImage == InitImage /\ [][NextImage]_vars

\* The closures of the current render are held by nothing, unless it is the
\* mount render; at most one frame of a card is pending.
RenderNamesOK ==
  \A c \in Cards :
    /\ mounted[c] => render[c] = 1 \/ render[c] \notin HeldRenders(Cur, c)
    /\ Cardinality(pendingFrames[c]) <= 1
    /\ pendingFrames[c] \subseteq {rafRef[c]}

\* ---------------------------------------------------------------- claims
Sounding(c) == \E x \in sources[c] : x.status = "sounding"

\* C1: at most one buffer source, over all cards, is started and neither
\* stopped nor ended.
AtMostOneSounding ==
  Cardinality({<<c, x>> \in UNION {{c} \X sources[c] : c \in Cards} :
                 x.status = "sounding"}) <= 1

\* C2: at most one mounted card has isPlaying = true; the card a toggle
\* starts gets isPlaying in the same step in which the previous one loses it.
AtMostOnePlaying ==
  Cardinality({c \in Cards : mounted[c] /\ isPlaying[c]}) <= 1

AtMostOnePlaying_witness ==
  /\ lastOp.op \in {"TogglePlayCached", "ToggleRequest"}
  /\ isPlaying[lastOp.card]
  /\ \E a \in lastOp.was : a # lastOp.card /\ mounted[a] /\ ~isPlaying[a]

\* C3: a response that arrives for a card that lost isPlaying (or was
\* unmounted) while its request was in flight starts no buffer source and
\* no ambience for that card.
StaleResponseDiscarded ==
  \A c \in Cards :
    (lastOp.op = "SpeechResolved" /\ lastOp.card = c /\ c \notin lastOp.was)
      => ~Sounding(c) /\ bgMusicControlRef[c] # "live"

\* C4: after the speech request of a card rejected, the card has
\* isPlaying = false and isLoadingAudio = false and the coordinator slot
\* holds no stop handle of that card.
RejectedEndsIdle ==
  \A c \in Cards :
    (lastOp.op = "SpeechRejected" /\ lastOp.card = c /\ mounted[c])
      => /\ ~isPlaying[c]
         /\ ~isLoadingAudio[c]
         /\ activeStopCallback.card # c

RejectedEndsIdle_witness ==
  \E c \in Cards :
    /\ lastOp.op = "SpeechRejected" /\ lastOp.card = c /\ mounted[c]
    /\ c \in lastOp.was
    /\ activeStopCallback = NoHandle

\* C5: after a failed play attempt the card has no started buffer source
\* and no ambience handle that is started and not stopped.
RejectedLeavesNoAudio ==
  \A c \in Cards :
    (lastOp.op = "SpeechRejected" /\ lastOp.card = c)
      => ~Sounding(c) /\ bgMusicControlRef[c] # "live" /\ ~leaked[c]

\* C6: after the source of a Playing card ended by itself the card is Idle
\* with progress 100, its ambience is stopped and the coordinator slot does
\* not hold its handle.
NaturalEndReleases ==
  \A c \in Cards :
    (lastOp.op = "NaturalEnd" /\ lastOp.card = c)
      => /\ ~isPlaying[c] /\ sourceRef[c] = 0
         /\ progress[c] = 100
         /\ bgMusicControlRef[c] = "null" /\ ~leaked[c]
         /\ activeStopCallback.card # c

\* C7: stopAudio on a card that is Idle changes nothing.
Idle(c) ==
  /\ mounted[c] /\ ~isPlaying[c] /\ ~isLoadingAudio[c]
  /\ sourceRef[c] = 0 /\ bgMusicControlRef[c] = "null"
  /\ pendingFrames[c] = {}

StopOnIdleIsNoOp ==
  \A c \in Cards :
    Idle(c) => /\ stopAudio(Cur, c).isPlaying = isPlaying
               /\ stopAudio(Cur, c).progress = progress
               /\ stopAudio(Cur, c).audioBuffer = audioBuffer
               /\ stopAudio(Cur, c).sourceRef = sourceRef
               /\ stopAudio(Cur, c).bgMusicControlRef = bgMusicControlRef
               /\ stopAudio(Cur, c).sources = sources
               /\ stopAudio(Cur, c).activeStopCallback = activeStopCallback

\* C8: after toggleAudio stopped a Playing card the coordinator slot holds
\* no stop handle of that card.
ExplicitStopReleases ==
  \A c \in Cards :
    (lastOp.op = "ToggleStop" /\ lastOp.card = c) => activeStopCallback.card # c

\* C9: from an explicit stop of a card until the next toggle on it, its
\* source is halted, its ambience handle cleared, no frame is pending,
\* isPlaying is false and progress is 0.
StoppedStaysStopped ==
  \A c \in Cards :
    (userStopped[c] /\ mounted[c])
      => /\ ~isPlaying[c] /\ progress[c] = 0
         /\ sourceRef[c] = 0 /\ bgMusicControlRef[c] = "null"
         /\ pendingFrames[c] = {}

\* C10: a change of the segment of a card that is Playing halts the source
\* it plays, leaves isPlaying = false and progress = 0, and discards the
\* cached audioBuffer, all in the same step.
SegmentChangeStops ==
  [][lastOp'.op = "NewScript" =>
       \A c \in Cards :
         (mounted[c] /\ mounted'[c] /\ isPlaying[c] /\ sourceRef[c] # 0)
           => /\ ~isPlaying'[c] /\ progress'[c] = 0
              /\ audioBuffer'[c] = "null"
              /\ sourceRef'[c] = 0
              /\ \A x \in sources'[c] :
                   x.id = sourceRef[c] => x.status # "sounding"]_vars

SegmentChangeStops_witness ==
  \E c \in lastOp.was :
    /\ lastOp.op = "NewScript" /\ mounted[c]
    /\ ~isPlaying[c] /\ audioBuffer[c] = "null" /\ progress[c] = 0
    /\ \E x \in sources[c] : x.status = "stoppedq"

\* C11: the cached audioBuffer of a card, when there is one, was decoded
\* from speech generated for the current segment text of the card.
CacheMatchesSegment ==
  \A c \in Cards : mounted[c] => audioBuffer[c] # "stale"

\* C12: after the teardown of a card, in whichever state it was, the card
\* has no sounding buffer source, no ambience handle that is started and not
\* stopped, and no pending frame.
TeardownReleases ==
  \A c \in Cards :
    ~mounted[c]
      => /\ ~Sounding(c)
         /\ bgMusicControlRef[c] # "live" /\ ~leaked[c]
         /\ pendingFrames[c] = {}

\* C13: the highlighted word index lies in 0 .. words.length - 1 for every
\* progress in 0..100 and every text; at progress 100 it is the last word.
WordIndexInRange ==
  /\ subtitle.index \in 0..(subtitle.words - 1)
  /\ subtitle.progress = 100 => subtitle.index = subtitle.words - 1

WordIndexInRange_witness ==
  /\ subtitle.words >= 2 /\ subtitle.progress = 100
  /\ subtitle.index = subtitle.words - 1

\* C14: for a fixed text the highlighted word index does not decrease when
\* the progress does not decrease.
WordIndexMonotone ==
  [][(subtitle'.words = subtitle.words
        /\ subtitle'.progress >= subtitle.progress)
       => subtitle'.index >= subtitle.index]_vars

WordIndexMonotone_witness ==
  /\ subtitle.words >= 3 /\ subtitle.progress \in 1..99
  /\ subtitle.index \in 1..(subtitle.words - 2)

\* C15: decoding a payload of an odd number of bytes, and decoding an empty
\* payload, fails with an error instead of producing an audio buffer.
DecodeRejectsOddAndEmpty ==
  (decoder.stage \in {"decoded", "decodedTwice"}
     /\ (Len(decoder.bytes) % 2 = 1 \/ Len(decoder.bytes) = 0))
    => decoder.buffer.error # "none"

\* C16: the base64 of the little-endian bytes of N >= 1 signed 16-bit
\* samples decodes to a mono 24000 Hz buffer of N samples whose i-th value
\* is sample_i / 32768, and decoding it again gives the same buffer.
DecodeRoundTrip ==
  (decoder.stage \in {"decoded", "decodedTwice"}
     /\ Len(decoder.samples) >= 1
     /\ decoder.bytes = pcmBytes(decoder.samples))
    => /\ decoder.buffer.error = "none"
       /\ decoder.buffer.numberOfChannels = 1
       /\ decoder.buffer.sampleRate = 24000
       /\ Len(decoder.buffer.channelData) = Len(decoder.samples)
       /\ \A i \in 1..Len(decoder.samples) :
            decoder.buffer.channelData[i] =
              [num |-> decoder.samples[i], den |-> 32768]
       /\ decoder.stage = "decodedTwice" => decoder.again = decoder.buffer

DecodeRoundTrip_witness ==
  /\ decoder.stage = "decodedTwice"
  /\ Len(decoder.samples) = 2
  /\ decoder.samples[1] < 0 /\ decoder.samples[2] > 0
  /\ decoder.bytes = pcmBytes(decoder.samples)
  /\ decoder.buffer.error = "none"

\* C17: after a failed play attempt the card is Idle and shows the failure:
\* what it renders differs from what a card that was never played renders.
RejectionIsVisible ==
  \A c \in Cards :
    (lastOp.op = "SpeechRejected" /\ lastOp.card = c /\ mounted[c])
      => /\ ~isPlaying[c] /\ ~isLoadingAudio[c]
         /\ <<isPlaying[c], isLoadingAudio[c], audioBuffer[c], progress[c]>>
              # <<FALSE, FALSE, "null", 0>>

\* C18: a card has at most one buffer source that is started and not
\* stopped, and every ambience handle it started is the one
\* bgMusicControlRef refers to or has been stopped.
OneSessionPerCard ==
  \A c \in Cards :
    /\ Cardinality({x \in sources[c] : x.status = "sounding"}) <= 1
    /\ ~leaked[c]

\* C19: while a card plays, first play or replay, the progress loop runs,
\* and the progress a display frame sets at elapsed time e < duration is
\* e / duration.
ProgressFollowsPlayback ==
  \A c \in Cards :
    (mounted[c] /\ isPlaying[c] /\ sourceRef[c] # 0
       /\ Source(Cur, c, sourceRef[c]).status = "sounding")
      => /\ pendingFrames[c] # {}
         /\ (lastOp.op = "Frame" /\ lastOp.card = c)
              => progress[c]
                   = (Source(Cur, c, sourceRef[c]).elapsed * 100) \div Duration

\* C20: a card whose speech request settled has isLoadingAudio = false,
\* whatever happened to the card while the request was in flight, and no
\* card has isLoadingAudio = true without a speech request in flight.
NoStuckLoading ==
  \A c \in Cards :
    /\ (mounted[c] /\ isLoadingAudio[c]) => speechRequest[c] # NoRequest
    /\ (lastOp.op \in {"SpeechResolved", "SpeechRejected"} /\ lastOp.card = c)
         => ~isLoadingAudio[c]

NoStuckLoading_witness ==
  \E c \in Cards :
    /\ lastOp.op \in {"SpeechResolved", "SpeechRejected"} /\ lastOp.card = c
    /\ mounted[c] /\ c \notin lastOp.was
    /\ ~isLoadingAudio[c] /\ speechRequest[c] = NoRequest

\* The voice the claim maps a tone to.
ClaimedVoice(tone) ==
  IF tone = "URGENT" THEN "Fenrir"
  ELSE IF tone = "AUTHORITATIVE" THEN "Charon"
  ELSE IF tone \in {"MOTIVATIONAL", "PERSONAL"} THEN "Zephyr"
  ELSE IF tone \in {"HUMOROUS", "STORYTELLING"} THEN "Puck"
  ELSE "Kore"

SlotClearedOnlyByOwner ==
  [][\A d \in Cards :
       (activeStopCallback.card = d /\ activeStopCallback'.card # d)
         => \/ /\ activeStopCallback' = NoHandle
               /\ \/ /\ lastOp'.card = d
                     /\ lastOp'.op \in {"NaturalEnd", "SpeechRejected",
                                        "ToggleStop"}
                  \/ mounted[d] /\ ~mounted'[d]
                  \/ {x.id : x \in sources'[d]} # {x.id : x \in sources[d]}
            \/ /\ activeStopCallback'.card = lastOp'.card
               /\ lastOp'.op \in {"TogglePlayCached", "ToggleRequest"}]_vars

SlotClearedOnlyByOwner_witness ==
  \E c \in Cards :
    /\ lastOp.op \in {"SpeechRejected", "NaturalEnd"} /\ lastOp.card = c
    /\ activeStopCallback.card \notin {0, c}

\* C23: the slot never holds the stop handle of an unmounted card.
SlotHolderMounted ==
  activeStopCallback.card # 0 => mounted[activeStopCallback.card]

\* C24: the progress of a card is within 0..100; a progress-loop tick of a
\* playback does not lower the progress the tick before left; and progress
\* becomes 100 only in a tick at elapsed >= duration or at a natural end.
ProgressBoundedMonotone ==
  [][\A c \in Cards :
       /\ progress'[c] \in 0..100
       /\ (lastOp'.op = "Frame" /\ lastOp'.card = c
             /\ isPlaying[c] /\ sourceRef[c] # 0)
            => progress'[c] >= progress[c]
       /\ (mounted'[c] /\ progress[c] # 100 /\ progress'[c] = 100)
            => \/ lastOp'.op = "NaturalEnd" /\ lastOp'.card = c
               \/ /\ lastOp'.op = "Frame" /\ lastOp'.card = c
                  /\ sourceRef[c] # 0
                  /\ Source(Cur, c, sourceRef[c]).elapsed >= Duration]_vars

TickOnlyDerives ==
  [][lastOp'.op = "Frame"
       => /\ sources' = sources /\ sourceRef' = sourceRef
          /\ bgMusicControlRef' = bgMusicControlRef /\ leaked' = leaked
          /\ gainNode' = gainNode /\ bgMusicVolume' = bgMusicVolume
          /\ isPlaying' = isPlaying /\ isLoadingAudio' = isLoadingAudio
          /\ audioBuffer' = audioBuffer /\ speechRequest' = speechRequest
          /\ isBgMusicOn' = isBgMusicOn /\ mounted' = mounted
          /\ sharedAudioContext' = sharedAudioContext
          /\ activeStopCallback' = activeStopCallback
          /\ \A d \in Cards \ {lastOp'.card} :
               /\ progress'[d] = progress[d]
               /\ pendingFrames'[d] = pendingFrames[d]
               /\ rafRef'[d] = rafRef[d]]_vars

TickOnlyDerives_witness ==
  \E c \in Cards :
    /\ lastOp.op = "Frame" /\ lastOp.card = c
    /\ isPlaying[c] /\ Sounding(c) /\ progress[c] > 0 /\ pendingFrames[c] # {}
    /\ activeStopCallback.card = c

\* C27: the first getAudioContext() call, which every click on a card's
\* play button makes, constructs the shared context, and from then on
\* sharedAudioContext is that same context: it is never replaced and never
\* reset to null, whichever card calls.
ContextIsSingleton ==
  [][/\ sharedAudioContext # 0 => sharedAudioContext' = sharedAudioContext
     /\ lastOp'.op \in {"ToggleStop", "TogglePlayCached", "ToggleRequest"}
          => sharedAudioContext' = 1]_vars

\* A second card has called getAudioContext() after the first one.
ContextIsSingleton_witness ==
  /\ sharedAudioContext = 1
  /\ lastOp.op \in {"TogglePlayCached", "ToggleRequest"}
  /\ \E d \in Cards \ {lastOp.card} : audioBuffer[d] # "null" \/ isLoadingAudio[d]

\* C29: whenever the voice buffer of a card is sounding, the card has a live
\* ambience handle exactly if its ambience switch is on at that moment, also
\* when the switch was flipped while the speech request was loading.
AmbienceFollowsSwitch ==
  \A c \in Cards :
    (mounted[c] /\ Sounding(c))
      => (bgMusicControlRef[c] = "live" <=> isBgMusicOn[c])

\* C30: whenever a card is Playing with a live ambience handle, the target
\* of the master gain of that handle is the card's current volume setting:
\* a volume change made while Playing or Loading reaches the handle that is
\* live afterwards, and an ambience started later starts at the latest
\* volume.
GainFollowsVolume ==
  \A c \in Cards :
    (mounted[c] /\ isPlaying[c] /\ ~isLoadingAudio[c]
       /\ bgMusicControlRef[c] = "live")
      => gainNode[c] = bgMusicVolume[c]

\* C28: flipping the ambience switch of a card that is Playing leaves the
\* voice untouched (the sources and their start times, sourceRef, isPlaying,
\* progress, the frames and the coordinator slot); from on to off it only
\* stops and clears the ambience handle, from off to on it only creates an
\* ambience handle, started at the current volume.
MusicSwitchLeavesVoice ==
  [][\A c \in Cards :
       (mounted[c] /\ mounted'[c] /\ isBgMusicOn'[c] # isBgMusicOn[c]
          /\ isPlaying[c] /\ ~isLoadingAudio[c])
         => /\ sources' = sources /\ sourceRef' = sourceRef
            /\ isPlaying' = isPlaying /\ progress' = progress
            /\ pendingFrames' = pendingFrames /\ rafRef' = rafRef
            /\ activeStopCallback' = activeStopCallback
            /\ leaked' = leaked
            /\ IF isBgMusicOn[c]
               THEN bgMusicControlRef'[c] = "null" /\ ~ambienceStarted'[c]
               ELSE /\ bgMusicControlRef'[c] = "live" /\ ambienceStarted'[c]
                    /\ gainNode'[c] = bgMusicVolume'[c]]_vars

\* C31: for every tone, stop() on an ambience handle schedules a linear ramp
\* of the master gain to 0 that ends 1 second later and schedules every
\* oscillator created for the handle, the lfo of the urgent tone included,
\* to stop at the end of that ramp; the master gain is disconnected only
\* after the ramp has ended.
StopFadesAndReleases ==
  ambience.stage \in {"stopping", "released"}
    => /\ ambience.ramp = <<[value |-> 0,
                             endTime |-> ambience.stopTime + FadeTime]>>
       /\ \A o \in ambience.created :
            ambience.stopAt[o] = ambience.stopTime + FadeTime
       /\ ambience.created # {}
       /\ ~ambience.connected => ambience.now > ambience.stopTime + FadeTime

StopFadesAndReleases_witness ==
  /\ ambience.stage = "released" /\ ambience.tone = "URGENT"
  /\ 0 \in ambience.created /\ ambience.stopTime > 0

\* C32: generateSpeech is called only by a card without a cached buffer; a
\* toggle that starts playback on a card with a cached buffer makes no
\* request, keeps the buffer and starts a new source on it at time zero.
CachedReplayMakesNoRequest ==
  [][\A c \in Cards :
       /\ (speechRequest'[c] # speechRequest[c] /\ speechRequest'[c] # NoRequest
             /\ speechRequest'[c].text = "current")
            => audioBuffer[c] = "null"
       /\ (mounted[c] /\ ~isPlaying[c] /\ isPlaying'[c] /\ audioBuffer[c] # "null")
            => /\ speechRequest'[c] = NoRequest /\ ~isLoadingAudio'[c]
               /\ audioBuffer'[c] = audioBuffer[c]
               /\ sourceRef'[c] # 0
               /\ sourceRef'[c] \notin {x.id : x \in sources[c]}
               /\ \E x \in sources'[c] :
                    x.id = sourceRef'[c] /\ x.status = "sounding" /\ x.elapsed = 0]_vars

CachedReplayMakesNoRequest_witness ==
  \E c \in Cards :
    /\ lastOp.op = "TogglePlayCached" /\ lastOp.card = c
    /\ audioBuffer[c] = "current" /\ speechRequest[c] = NoRequest
    /\ isPlaying[c] /\ Sounding(c)

\* C33: whenever a mounted card has isPlaying = true, loading or sounding,
\* the coordinator slot holds a stop handle of that card; while the card
\* keeps isPlaying the slot is not changed, and the toggle of another card
\* that takes the slot stops it.
PlayingHoldsSlot ==
  /\ [](\A c \in Cards :
          (mounted[c] /\ isPlaying[c]) => activeStopCallback.card = c)
  /\ [][\A c \in Cards :
          /\ (mounted[c] /\ isPlaying[c] /\ mounted'[c] /\ isPlaying'[c])
               => activeStopCallback' = activeStopCallback
          /\ (mounted[c] /\ isPlaying[c] /\ activeStopCallback'.card \notin {0, c})
               => ~isPlaying'[c]]_vars

PlayingHoldsSlot_witness ==
  \E c, d \in Cards :
    /\ c # d /\ lastOp.card = d /\ c \in lastOp.was
    /\ lastOp.op \in {"TogglePlayCached", "ToggleRequest"}
    /\ isPlaying[d] /\ activeStopCallback.card = d /\ ~isPlaying[c]

StaleEndedIsIgnored ==
  [][\A c \in Cards :
       (/\ mounted[c] /\ isPlaying[c] /\ sourceRef[c] # 0
        /\ \E x \in sources[c] :
             /\ x.id # sourceRef[c]
             /\ x.id \notin {y.id : y \in sources'[c]})
         => /\ isPlaying'[c] /\ progress'[c] = progress[c]
            /\ sourceRef'[c] = sourceRef[c]
            /\ bgMusicControlRef'[c] = bgMusicControlRef[c]]_vars

\* C36: when analyzeVoiceStyle rejects after an upload, isAnalyzingVoice is
\* false again and an upload error is set, so the upload area and the
\* Generate button are not left disabled.
FailedAnalysisIsReported ==
  upload.stage = "rejected"
    => /\ ~upload.isAnalyzingVoice /\ upload.uploadError # "null"
       /\ upload.topic # "" => ~GenerateDisabled

\* C37: the history never holds more than the limit of items, it is ordered
\* newest first, the stored history equals the one in memory, and a
\* successful generation adds exactly one item, at the front of the history
\* as it is, dropping what is beyond the limit.
HistoryBoundedAndPersisted ==
  /\ [](/\ Len(app.history) <= HistoryLimit
        /\ \A i, j \in DOMAIN app.history :
             i < j => app.history[i] > app.history[j]
        /\ app.persisted = app.history)
  /\ [][app'.last = "saved" /\ app.request # <<>>
          => app'.history = slice(<<app.clock>> \o app.history, HistoryLimit)]_vars

\* C38: an item that was deleted, or cleared, while a generation was in
\* flight stays deleted when the generation completes: the history saved
\* then holds the new item and items of the history of that moment only.
DeletedStaysDeleted ==
  [][app'.last = "saved" /\ app.request # <<>>
       => Items(app'.history) \subseteq Items(app.history) \cup {app.clock}]_vars

\* C39: the image shown on a card was made for the card's current segment,
\* an answer that arrives after the segment changed is not shown, and
\* isGeneratingImage is false once the request has settled.
ImageOfCurrentSegment ==
  /\ image.imageSrc # <<>> => image.imageSrc[1].segment = image.segment
  /\ image.last \in {"resolved", "rejected"} => ~image.isGeneratingImage

====
